---- MODULE Spec2Model ----
(***************************************************************************)
(* Model of the authors/quotes REST service of app.py: the two tables, the *)
(* route handlers, and the response each handler returns.                  *)
(***************************************************************************)
EXTENDS Integers, Sequences, FiniteSets, TLC

\* ---------------------------------------------------------------- bounds
MaxAuthors == 2
MaxQuotes == 2

AuthorIds == 1..MaxAuthors
QuoteIds == 1..MaxQuotes

\* ------------------------------------------------------- HTTP status codes
OK == 200
CREATED == 201
BAD_REQUEST == 400
NOT_FOUND == 404
SERVICE_UNAVAILABLE == 503

\* ------------------------------------------------------------ JSON values
JStr(s) == [type |-> "str", s |-> s, n |-> 0]
JInt(n) == [type |-> "int", s |-> "", n |-> n]
JBool(n) == [type |-> "bool", s |-> "", n |-> n]

\* the values request bodies carry: one name, one explicit surname (the
\* default surname is ""), two texts, and ratings on both sides of 1..5
\* together with a JSON true, whose Python type is bool and not int
NameValues == {JStr("a")}
SurnameValues == {JStr("s")}
TextValues == {JStr("x"), JStr("y")}
RatingValues == {JInt(0), JInt(1), JInt(5), JInt(6), JBool(1)}
JsonValues == NameValues \cup SurnameValues \cup TextValues \cup RatingValues

ValuesOf(k) ==
    CASE k = "name" -> NameValues
      [] k = "surname" -> SurnameValues
      [] k = "text" -> TextValues
      [] k = "rating" -> RatingValues

\* request bodies: the JSON objects over the given keys, {} included
Bodies(keys) ==
    UNION { { f \in [K -> JsonValues] : \A k \in K : f[k] \in ValuesOf(k) } : K \in SUBSET keys }

\* a key no handler knows
Foo == "foo" :> JInt(9)

AuthorBodies == Bodies({"name", "surname"}) \cup { Foo, Foo @@ ("name" :> JStr("a")) }
QuoteBodies == Bodies({"text", "rating"}) \cup { Foo, Foo @@ ("text" :> JStr("x")) }

\* query strings of GET /quotes/filter: every value is a string
ArgStrings == {"", "a", "b", "s", "x", "5", "05", "abc"}

ArgValuesOf(k) ==
    CASE k = "name" -> {"", "a", "b"}
      [] k = "surname" -> {"s"}
      [] k = "text" -> {"x"}
      [] k = "rating" -> {"5", "05", "abc"}

Args(keys) ==
    UNION { { f \in [K -> ArgStrings] : \A k \in K : f[k] \in ArgValuesOf(k) } : K \in SUBSET keys }

FilterArgs ==
    Args({"name", "surname", "text", "rating"}) \cup { "foo" :> "z", ("foo" :> "z") @@ ("name" :> "a") }

\* ------------------------------------------------------------------ state
\* authors, quotes: the two tables, row id -> row
\* pc, req, resp:     the request being served and the response to it
\* deleted:           history of the rows whose DELETE returned 200 with no
\*                    successful create since
VARIABLES authors, quotes, pc, req, resp, deleted

vars == <<authors, quotes, pc, req, resp, deleted>>

NoData == <<>>

Request(op, id, data) == [op |-> op, id |-> id, data |-> data]

NoBody == [count |-> 0, authors |-> <<>>, quotes |-> <<>>]

Response(status, msg, body) == [status |-> status, msg |-> msg, body |-> body]

NoRequest == Request("none", 0, NoData)
NoResponse == Response(0, "", NoBody)

\* the handler returns: the response of request r is rs
Return(r, rs) ==
    /\ pc' = "done"
    /\ req' = r
    /\ resp' = rs

\* ---------------------------------------------------------------- helpers
\* the rows of a select, in row id order
RECURSIVE SortedIds(_)
SortedIds(S) ==
    IF S = {} THEN <<>>
    ELSE LET m == CHOOSE x \in S : \A y \in S : x <= y
         IN <<m>> \o SortedIds(S \ {m})

Without_Nothing(table, id) == table

\* db.session.delete(row)
Without(table, id) == [i \in DOMAIN table \ {id} |-> table[i]]

\* integer primary key: the row id after the largest one in the table
NextId(table) ==
    IF DOMAIN table = {} THEN 1
    ELSE (CHOOSE x \in DOMAIN table : \A y \in DOMAIN table : y <= x) + 1

\* to_dict: the formatted strings 'id=.., name surname' and 'id=.., text'
\* are kept as the tuples of their parts
AuthorToDict(tA, id) == [id |-> id, name |-> tA[id].name, surname |-> tA[id].surname]

QuoteToDict(tA, tQ, id) ==
    [author |-> <<tQ[id].author_id, tA[tQ[id].author_id].name, tA[tQ[id].author_id].surname>>,
     quote |-> <<id, tQ[id].text>>,
     rating |-> tQ[id].rating]

iterate(tA, tQ, temp_db) == [i \in 1..Len(temp_db) |-> QuoteToDict(tA, tQ, temp_db[i])]

\* abort(status, msg)
Abort(r, status, msg) ==
    /\ Return(r, Response(status, msg, NoBody))
    /\ UNCHANGED <<authors, quotes, deleted>>

\* the unique index on quotes.text
UniqueText(tQ) == \A i, j \in DOMAIN tQ : i # j => tQ[i].text # tQ[j].text

\* db.session.commit(): the pending rows become the stored rows, or the
\* store raises and keeps the rows it had
CommitOk(tQ, fail) == ~fail /\ UniqueText(tQ)

Commit_NoRollback(tA, tQ, fail) == [authors |-> tA, quotes |-> tQ]

Commit(tA, tQ, fail) ==
    IF CommitOk(tQ, fail) THEN [authors |-> tA, quotes |-> tQ]
    ELSE [authors |-> authors, quotes |-> quotes]

\* ---------------------------------------------------------------- AUTHORS

\* GET /authors
get_authors ==
    /\ pc = "idle"
    /\ LET r == Request("get_authors", 0, NoData)
           authors_db == SortedIds(DOMAIN authors)
       IN /\ Return(r, Response(OK, "",
                       [NoBody EXCEPT !.authors =
                           [i \in 1..Len(authors_db) |-> AuthorToDict(authors, authors_db[i])]]))
          /\ UNCHANGED <<authors, quotes, deleted>>

\* GET /authors/<author_id>
author_quotes(author_id) ==
    /\ pc = "idle"
    /\ LET r == Request("author_quotes", author_id, NoData)
       IN IF author_id \notin DOMAIN authors
          THEN Abort(r, NOT_FOUND, "Author not found")
          ELSE /\ Return(r, Response(OK, "",
                            [NoBody EXCEPT !.authors = <<AuthorToDict(authors, author_id)>>]))
               /\ UNCHANGED <<authors, quotes, deleted>>

\* db.select(QuoteModel).where(QuoteModel.author_id == author_id)
QuotesOfAuthor_NoWhere(author_id) == SortedIds(DOMAIN quotes)

QuotesOfAuthor(author_id) ==
    SortedIds({q \in DOMAIN quotes : quotes[q].author_id = author_id})

\* GET /authors/<author_id>/quotes
get_quote_by_author_id(author_id) ==
    /\ pc = "idle"
    /\ LET r == Request("get_quote_by_author_id", author_id, NoData)
       IN IF author_id \notin DOMAIN authors
          THEN Abort(r, NOT_FOUND, "Author not found")
          ELSE LET quotes_db == QuotesOfAuthor(author_id)
               IN /\ Return(r, Response(OK, "",
                               [NoBody EXCEPT !.quotes = iterate(authors, quotes, quotes_db)]))
                  /\ UNCHANGED <<authors, quotes, deleted>>

\* AuthorModel.__init__(name, surname="")
AuthorModel(new_data) ==
    [name |-> new_data["name"].s,
     surname |-> IF "surname" \in DOMAIN new_data THEN new_data["surname"].s ELSE ""]

\* POST /authors
create_author(data) ==
    /\ pc = "idle"
    /\ LET r == Request("create_author", 0, data)
       IN IF DOMAIN data = {}
          THEN Abort(r, BAD_REQUEST, "No valid data to update")
          ELSE LET keys == DOMAIN data \cap {"name", "surname"}
               IN IF "name" \notin keys
                  THEN Abort(r, BAD_REQUEST, "Invalid data")
                  ELSE \E fail \in BOOLEAN :
                         LET new_data == [k \in keys |-> data[k]]
                             id == NextId(authors)
                             pending == (id :> AuthorModel(new_data)) @@ authors
                             db == Commit(pending, quotes, fail)
                         IN /\ id <= MaxAuthors
                            /\ authors' = db.authors
                            /\ quotes' = db.quotes
                            /\ IF CommitOk(quotes, fail)
                               THEN /\ Return(r, Response(CREATED, "",
                                                 [NoBody EXCEPT !.authors = <<AuthorToDict(pending, id)>>]))
                                    /\ deleted' = {}
                               ELSE /\ Return(r, Response(SERVICE_UNAVAILABLE, "Error", NoBody))
                                    /\ UNCHANGED deleted

SetAttrs_Replace(record, keys, data) ==
    [f \in DOMAIN record |->
        IF f \in keys THEN (IF f = "rating" THEN data[f].n ELSE data[f].s)
        ELSE IF f = "rating" THEN 1 ELSE IF f \in {"text", "name", "author_id"} THEN record[f] ELSE ""]

\* setattr(record, k, data[k]) for every k in keys
SetAttrs(record, keys, data) ==
    [f \in DOMAIN record |->
        IF f \in keys THEN (IF f = "rating" THEN data[f].n ELSE data[f].s) ELSE record[f]]

\* PUT /authors/<author_id>
edit_author(author_id, data) ==
    /\ pc = "idle"
    /\ LET r == Request("edit_author", author_id, data)
       IN IF DOMAIN data = {}
          THEN Abort(r, BAD_REQUEST, "No valid data to update")
          ELSE IF author_id \notin DOMAIN authors
          THEN Abort(r, NOT_FOUND, "Author not found")
          ELSE LET keys == DOMAIN data \cap {"name", "surname"}
               IN IF keys = {}
                  THEN Abort(r, BAD_REQUEST, "Invalid data")
                  ELSE \E fail \in BOOLEAN :
                         LET pending == [authors EXCEPT ![author_id] = SetAttrs(@, keys, data)]
                             db == Commit(pending, quotes, fail)
                         IN /\ authors' = db.authors
                            /\ quotes' = db.quotes
                            /\ UNCHANGED deleted
                            /\ IF CommitOk(quotes, fail)
                               THEN Return(r, Response(OK, "",
                                              [NoBody EXCEPT !.authors = <<AuthorToDict(pending, author_id)>>]))
                               ELSE Return(r, Response(SERVICE_UNAVAILABLE, "Error", NoBody))

CascadeDelete_NoCascade(tQ, author_id) == tQ

\* relationship(cascade="all, delete-orphan"): the quotes left when the
\* author author_id is deleted
CascadeDelete(tQ, author_id) ==
    [q \in {i \in DOMAIN tQ : tQ[i].author_id # author_id} |-> tQ[q]]

\* DELETE /authors/<author_id>
delete_author(author_id) ==
    /\ pc = "idle"
    /\ LET r == Request("delete_author", author_id, NoData)
       IN IF author_id \notin DOMAIN authors
          THEN Abort(r, NOT_FOUND, "Author not found")
          ELSE \E fail \in BOOLEAN :
                 LET pending == CascadeDelete(quotes, author_id)
                     db == Commit(Without(authors, author_id), pending, fail)
                 IN /\ authors' = db.authors
                    /\ quotes' = db.quotes
                    /\ IF CommitOk(pending, fail)
                       THEN /\ Return(r, Response(OK, "deleted", NoBody))
                            /\ deleted' = deleted \cup {<<"author", author_id>>}
                       ELSE /\ Return(r, Response(SERVICE_UNAVAILABLE, "Error", NoBody))
                            /\ UNCHANGED deleted

\* ----------------------------------------------------------------- QUOTES

RatingRejected_BoolIsInt(rating) ==
    \/ rating.type \notin {"int", "bool"}
    \/ rating.n \notin 1..5

RatingRejected_UpTo6(rating) ==
    \/ rating.type # "int"
    \/ (rating.type = "int" /\ rating.n \notin 1..6)

\* the rating test of create_quote and edit_quote: type int and in range(1, 6)
RatingRejected(rating) ==
    \/ rating.type # "int"
    \/ (rating.type = "int" /\ rating.n \notin 1..5)

\* QuoteModel.__init__(author, text, rating=1)
QuoteModel(author_id, new_data) ==
    [author_id |-> author_id,
     text |-> new_data["text"].s,
     rating |-> IF "rating" \in DOMAIN new_data THEN new_data["rating"].n ELSE 1]

\* the checks of create_quote in the order the handler makes them: the abort
\* it ends with, or status 0 when the quote goes to the store
create_quote_RatingFirst(author_id, data) ==
    LET keys == DOMAIN data \cap {"text", "rating"}
    IN IF DOMAIN data = {}
       THEN [status |-> BAD_REQUEST, msg |-> "No valid data to update"]
       ELSE IF "rating" \in keys /\ data["rating"].type = "int" /\ data["rating"].n \notin 1..5
       THEN [status |-> BAD_REQUEST, msg |-> "Rating must be a number between 1 and 5."]
       ELSE IF author_id \notin DOMAIN authors
       THEN [status |-> NOT_FOUND, msg |-> "Author not found"]
       ELSE IF "rating" \in keys /\ data["rating"].type # "int"
       THEN [status |-> BAD_REQUEST, msg |-> "Rating must be a number between 1 and 5."]
       ELSE IF "text" \notin keys
       THEN [status |-> BAD_REQUEST, msg |-> "Invalid data"]
       ELSE [status |-> 0, msg |-> ""]

create_quote_checks(author_id, data) ==
    LET keys == DOMAIN data \cap {"text", "rating"}
    IN IF DOMAIN data = {}
       THEN [status |-> BAD_REQUEST, msg |-> "No valid data to update"]
       ELSE IF author_id \notin DOMAIN authors
       THEN [status |-> NOT_FOUND, msg |-> "Author not found"]
       ELSE IF "rating" \in keys /\ RatingRejected(data["rating"])
       THEN [status |-> BAD_REQUEST, msg |-> "Rating must be a number between 1 and 5."]
       ELSE IF "text" \notin keys
       THEN [status |-> BAD_REQUEST, msg |-> "Invalid data"]
       ELSE [status |-> 0, msg |-> ""]

\* POST /authors/<author_id>/quotes
create_quote(author_id, data) ==
    /\ pc = "idle"
    /\ LET r == Request("create_quote", author_id, data)
           abort == create_quote_checks(author_id, data)
           keys == DOMAIN data \cap {"text", "rating"}
       IN IF abort.status # 0
          THEN Abort(r, abort.status, abort.msg)
          ELSE \E fail \in BOOLEAN :
                 LET new_data == [k \in keys |-> data[k]]
                     id == NextId(quotes)
                     pending == (id :> QuoteModel(author_id, new_data)) @@ quotes
                     db == Commit(authors, pending, fail)
                 IN /\ id <= MaxQuotes
                    /\ authors' = db.authors
                    /\ quotes' = db.quotes
                    /\ IF CommitOk(pending, fail)
                       THEN /\ Return(r, Response(CREATED, "",
                                         [NoBody EXCEPT !.quotes = iterate(authors, pending, <<id>>)]))
                            /\ deleted' = {}
                       ELSE /\ Return(r, Response(SERVICE_UNAVAILABLE, "Error", NoBody))
                            /\ UNCHANGED deleted

\* GET /quotes/ and GET /quotes/<quotes_id>; quotes_id = 0 stands for None
get_quote(quotes_id) ==
    /\ pc = "idle"
    /\ LET r == Request("get_quote", quotes_id, NoData)
       IN IF quotes_id # 0
          THEN IF quotes_id \notin DOMAIN quotes
               THEN Abort(r, NOT_FOUND, "Quote not found")
               ELSE /\ Return(r, Response(OK, "",
                                 [NoBody EXCEPT !.quotes = iterate(authors, quotes, <<quotes_id>>)]))
                    /\ UNCHANGED <<authors, quotes, deleted>>
          ELSE /\ Return(r, Response(OK, "",
                            [NoBody EXCEPT !.quotes = iterate(authors, quotes, SortedIds(DOMAIN quotes))]))
               /\ UNCHANGED <<authors, quotes, deleted>>

\* PUT /quotes/<quote_id>
edit_quote(quote_id, data) ==
    /\ pc = "idle"
    /\ LET r == Request("edit_quote", quote_id, data)
       IN IF DOMAIN data = {}
          THEN Abort(r, BAD_REQUEST, "No valid data to update")
          ELSE IF quote_id \notin DOMAIN quotes
          THEN Abort(r, NOT_FOUND, "Quote not found")
          ELSE LET keys == DOMAIN data \cap {"text", "rating"}
               IN IF "rating" \in keys /\ RatingRejected(data["rating"])
                  THEN Abort(r, BAD_REQUEST, "Rating must be a number between 1 and 5.")
                  ELSE IF keys = {}
                  THEN Abort(r, BAD_REQUEST, "Invalid data")
                  ELSE \E fail \in BOOLEAN :
                         LET pending == [quotes EXCEPT ![quote_id] = SetAttrs(@, keys, data)]
                             db == Commit(authors, pending, fail)
                         IN /\ authors' = db.authors
                            /\ quotes' = db.quotes
                            /\ UNCHANGED deleted
                            /\ IF CommitOk(pending, fail)
                               THEN Return(r, Response(OK, "",
                                              [NoBody EXCEPT !.quotes = iterate(authors, pending, <<quote_id>>)]))
                               ELSE Return(r, Response(SERVICE_UNAVAILABLE, "Error", NoBody))

\* DELETE /quotes/ and DELETE /quotes/<quote_id>; quote_id = 0 stands for None
delete_quote(quote_id) ==
    /\ pc = "idle"
    /\ LET r == Request("delete_quote", quote_id, NoData)
       IN IF quote_id # 0
          THEN IF quote_id \notin DOMAIN quotes
               THEN Abort(r, NOT_FOUND, "Quote not found")
               ELSE \E fail \in BOOLEAN :
                      LET pending == Without(quotes, quote_id)
                          db == Commit(authors, pending, fail)
                      IN /\ authors' = db.authors
                         /\ quotes' = db.quotes
                         /\ IF CommitOk(pending, fail)
                            THEN /\ Return(r, Response(OK, "deleted", NoBody))
                                 /\ deleted' = deleted \cup {<<"quote", quote_id>>}
                            ELSE /\ Return(r, Response(SERVICE_UNAVAILABLE, "Error", NoBody))
                                 /\ UNCHANGED deleted
          ELSE Abort(r, BAD_REQUEST, "The request is empty")

\* GET /quotes/count
quotes_count ==
    /\ pc = "idle"
    /\ /\ Return(Request("quotes_count", 0, NoData),
                 Response(OK, "", [NoBody EXCEPT !.count = Cardinality(DOMAIN quotes)]))
       /\ UNCHANGED <<authors, quotes, deleted>>

\* GET /quotes/random
quotes_random ==
    /\ pc = "idle"
    /\ /\ IF DOMAIN quotes # {}
          THEN \E q \in DOMAIN quotes :
                 Return(Request("quotes_random", 0, NoData),
                        Response(OK, "", [NoBody EXCEPT !.quotes = iterate(authors, quotes, <<q>>)]))
          ELSE Return(Request("quotes_random", 0, NoData), Response(OK, "Response is empty.", NoBody))
       /\ UNCHANGED <<authors, quotes, deleted>>

\* the integer a query-string value denotes when it is compared with the
\* integer column quotes.rating; 0 when it denotes none
IntegerOf(v) ==
    CASE v = "5" -> 5
      [] v = "05" -> 5
      [] OTHER -> 0

SelectAuthorIds_AnyKey(data_author) ==
    SortedIds({a \in DOMAIN authors : \E k \in DOMAIN data_author : authors[a][k] = data_author[k]})

\* db.select(AuthorModel.id).filter_by(**data_author)
SelectAuthorIds(data_author) ==
    SortedIds({a \in DOMAIN authors : \A k \in DOMAIN data_author : authors[a][k] = data_author[k]})

\* db.select(QuoteModel).filter_by(**data_quote)
SelectQuotes(data_quote) ==
    SortedIds({q \in DOMAIN quotes :
        /\ "text" \in DOMAIN data_quote => quotes[q].text = data_quote["text"].s
        /\ "rating" \in DOMAIN data_quote => quotes[q].rating = IntegerOf(data_quote["rating"].s)
        /\ "author_id" \in DOMAIN data_quote => quotes[q].author_id = data_quote["author_id"].n})

\* for a in authors_id: data_quote['author_id'] = a; quotes_db.extend(...)
RECURSIVE ExtendByAuthors(_, _)
ExtendByAuthors(authors_id, data_quote) ==
    IF authors_id = <<>> THEN <<>>
    ELSE SelectQuotes(("author_id" :> [s |-> "", n |-> Head(authors_id)]) @@ data_quote)
         \o ExtendByAuthors(Tail(authors_id), data_quote)

RecognizedKeys_All(data) == DOMAIN data

\* set(data.keys()).intersection({'name', 'surname', 'text', 'rating'})
RecognizedKeys(data) == DOMAIN data \cap {"name", "surname", "text", "rating"}

\* GET /quotes/filter
filter_quote(data) ==
    /\ pc = "idle"
    /\ LET r == Request("filter_quote", 0, data)
       IN IF RecognizedKeys(data) = {}
          THEN Abort(r, BAD_REQUEST, "Request is empty")
          ELSE LET data_author == [n \in {k \in DOMAIN data \cap {"name", "surname"} : data[k] # ""} |-> data[n]]
                   data_quote == [n \in {k \in DOMAIN data \cap {"text", "rating"} : data[k] # ""} |->
                                     [s |-> data[n], n |-> 0]]
                   quotes_db == IF DOMAIN data_author # {}
                                THEN ExtendByAuthors(SelectAuthorIds(data_author), data_quote)
                                ELSE SelectQuotes(data_quote)
               IN /\ Return(r, Response(OK, "",
                               [NoBody EXCEPT !.quotes = iterate(authors, quotes, quotes_db)]))
                  /\ UNCHANGED <<authors, quotes, deleted>>

\* the response is sent and the request context is torn down
teardown ==
    /\ pc = "done"
    /\ pc' = "idle"
    /\ req' = NoRequest
    /\ resp' = NoResponse
    /\ UNCHANGED <<authors, quotes, deleted>>

Init ==
    /\ authors = <<>>
    /\ quotes = <<>>
    /\ pc = "idle"
    /\ req = NoRequest
    /\ resp = NoResponse
    /\ deleted = {}

\* one request is served at a time: every handler starts from pc = "idle"
Next ==
    \/ get_authors
    \/ \E author_id \in AuthorIds : author_quotes(author_id)
    \/ \E author_id \in AuthorIds : get_quote_by_author_id(author_id)
    \/ \E data \in AuthorBodies : create_author(data)
    \/ \E author_id \in AuthorIds, data \in QuoteBodies : create_quote(author_id, data)
    \/ \E author_id \in AuthorIds, data \in AuthorBodies : edit_author(author_id, data)
    \/ \E author_id \in AuthorIds : delete_author(author_id)
    \/ \E quotes_id \in QuoteIds \cup {0} : get_quote(quotes_id)
    \/ \E quote_id \in QuoteIds, data \in QuoteBodies : edit_quote(quote_id, data)
    \/ \E quote_id \in QuoteIds \cup {0} : delete_quote(quote_id)
    \/ quotes_count
    \/ quotes_random
    \/ \E data \in FilterArgs : filter_quote(data)
    \/ teardown

Spec == Init /\ [][Next]_vars

TypeOK ==
    /\ DOMAIN authors \subseteq AuthorIds
    /\ DOMAIN quotes \subseteq QuoteIds
    /\ pc \in {"idle", "done"}
\* ------------------------------------------------------------- properties

\* the request op has just been served (state) / is served by this step
Served(op) == pc = "done" /\ req.op = op
Serves(op) == pc = "idle" /\ pc' = "done" /\ req'.op = op

\* the ids of the quotes listed in a response body
ListedQuoteIds(body) == {body.quotes[i].quote[1] : i \in 1..Len(body.quotes)}

\* a JSON value is an integer between 1 and 5
IsRating(v) == v.type = "int" /\ v.n >= 1 /\ v.n <= 5

\* C1: every stored quote references a stored author, and a DELETE
\* /authors/<id> that returned 200 has removed the author and all its quotes
C1_QuotesReferenceStoredAuthors ==
    /\ \A q \in DOMAIN quotes : quotes[q].author_id \in DOMAIN authors
    /\ (Served("delete_author") /\ resp.status = OK) =>
          /\ req.id \notin DOMAIN authors
          /\ \A q \in DOMAIN quotes : quotes[q].author_id # req.id

C1_Witness ==
    /\ Served("delete_author")
    /\ resp.status = OK
    /\ DOMAIN quotes # {}
    /\ <<"quote", 1>> \notin deleted
    /\ 1 \notin DOMAIN quotes

\* C2 as stated: POST /authors/<id>/quotes for an author that is not stored
\* returns 404 and stores no quote, whatever the body
C2_Original ==
    [][(Serves("create_quote") /\ req'.id \notin DOMAIN authors)
          => (resp'.status = NOT_FOUND /\ quotes' = quotes /\ authors' = authors)]_vars

\* C2 amended: POST /authors/<id>/quotes for an author that is not stored
\* stores no quote; it returns 404 when the body is not empty and 400 when
\* the body is empty
C2_MissingAuthor ==
    [][(Serves("create_quote") /\ req'.id \notin DOMAIN authors)
          => /\ quotes' = quotes
             /\ authors' = authors
             /\ DOMAIN req'.data # {} => resp'.status = NOT_FOUND
             /\ DOMAIN req'.data = {} => resp'.status = BAD_REQUEST]_vars

C2_Witness ==
    /\ Served("create_quote")
    /\ req.id \notin DOMAIN authors
    /\ DOMAIN req.data = {"rating"}
    /\ ~IsRating(req.data["rating"])
    /\ resp.status = NOT_FOUND

\* C3: POST /authors/<id>/quotes for a stored author with a rating that is
\* not an integer in 1..5 returns 400 and stores no quote, with or without text
C3_InvalidRatingRejected ==
    [][(/\ Serves("create_quote")
        /\ req'.id \in DOMAIN authors
        /\ "rating" \in DOMAIN req'.data
        /\ ~IsRating(req'.data["rating"]))
          => (resp'.status = BAD_REQUEST /\ quotes' = quotes /\ authors' = authors)]_vars

C3_Witness ==
    /\ Served("create_quote")
    /\ req.id \in DOMAIN authors
    /\ DOMAIN req.data = {"text", "rating"}
    /\ req.data["rating"].type = "bool"
    /\ resp.status = BAD_REQUEST

\* C4: every stored quote has an integer rating between 1 and 5, and a quote
\* created without a rating has rating 1
C4_RatingInRange ==
    /\ \A q \in DOMAIN quotes : quotes[q].rating \in 1..5
    /\ (Served("create_quote") /\ resp.status = CREATED /\ "rating" \notin DOMAIN req.data) =>
          \A q \in ListedQuoteIds(resp.body) : q \in DOMAIN quotes /\ quotes[q].rating = 1

C4_Witness ==
    /\ Served("edit_quote")
    /\ resp.status = OK
    /\ "rating" \in DOMAIN req.data
    /\ quotes[req.id].rating = 5
    /\ \E q \in DOMAIN quotes : quotes[q].rating = 1

\* C5: GET /quotes/filter with no parameter name in {name, surname, text,
\* rating} returns 400 and no quotes
C5_UnrecognizedFilter ==
    (Served("filter_quote") /\ DOMAIN req.data \cap {"name", "surname", "text", "rating"} = {}) =>
        (resp.status = BAD_REQUEST /\ resp.body.quotes = <<>>)

C5_Witness ==
    /\ Served("filter_quote")
    /\ DOMAIN req.data = {"foo"}
    /\ DOMAIN quotes # {}
    /\ resp.status = BAD_REQUEST

\* C6: a GET of an author or quote id whose DELETE returned 200, with no
\* successful create since, returns 404
C6_GetAfterDelete ==
    /\ (Served("author_quotes") /\ <<"author", req.id>> \in deleted) => resp.status = NOT_FOUND
    /\ (Served("get_quote") /\ <<"quote", req.id>> \in deleted) => resp.status = NOT_FOUND

C6_Witness ==
    /\ Served("get_quote")
    /\ <<"quote", req.id>> \in deleted
    /\ resp.status = NOT_FOUND
    /\ DOMAIN quotes # {}

\* C7: a POST /authors/<id>/quotes that returned 201 has stored the quote
\* under author <id>, and GET /authors/<id>/quotes lists exactly the stored
\* quotes of author <id>, each once
C7_AuthorQuotesListed ==
    /\ (Served("create_quote") /\ resp.status = CREATED) =>
          \A q \in ListedQuoteIds(resp.body) :
              /\ q \in DOMAIN quotes
              /\ quotes[q].author_id = req.id
              /\ quotes[q].text = req.data["text"].s
    /\ (Served("get_quote_by_author_id") /\ req.id \in DOMAIN authors) =>
          /\ resp.status = OK
          /\ ListedQuoteIds(resp.body) = {q \in DOMAIN quotes : quotes[q].author_id = req.id}
          /\ Len(resp.body.quotes) = Cardinality(ListedQuoteIds(resp.body))
          /\ \A i \in 1..Len(resp.body.quotes) :
                LET d == resp.body.quotes[i]
                IN /\ d.quote[2] = quotes[d.quote[1]].text
                   /\ d.rating = quotes[d.quote[1]].rating
                   /\ d.author[1] = req.id

C7_Witness ==
    /\ Served("get_quote_by_author_id")
    /\ resp.status = OK
    /\ Len(resp.body.quotes) = 1
    /\ Cardinality(DOMAIN quotes) = 2

\* C8: a request whose commit the store rejects returns 503 and leaves both
\* tables as they were; a quote text equal to the text of another stored
\* quote is rejected
C8_RejectedCommitRollsBack ==
    [][/\ (pc = "idle" /\ pc' = "done" /\ resp'.status = SERVICE_UNAVAILABLE)
            => (authors' = authors /\ quotes' = quotes)
       /\ (/\ Serves("create_quote")
           /\ req'.id \in DOMAIN authors
           /\ "text" \in DOMAIN req'.data
           /\ ("rating" \in DOMAIN req'.data => IsRating(req'.data["rating"]))
           /\ \E q \in DOMAIN quotes : quotes[q].text = req'.data["text"].s)
            => (resp'.status = SERVICE_UNAVAILABLE /\ authors' = authors /\ quotes' = quotes)
       /\ (/\ Serves("edit_quote")
           /\ req'.id \in DOMAIN quotes
           /\ "text" \in DOMAIN req'.data
           /\ ("rating" \in DOMAIN req'.data => IsRating(req'.data["rating"]))
           /\ \E q \in DOMAIN quotes \ {req'.id} : quotes[q].text = req'.data["text"].s)
            => (resp'.status = SERVICE_UNAVAILABLE /\ authors' = authors /\ quotes' = quotes)]_vars

C8_Witness ==
    /\ Served("edit_quote")
    /\ resp.status = SERVICE_UNAVAILABLE
    /\ "text" \in DOMAIN req.data
    /\ \E q \in DOMAIN quotes \ {req.id} : quotes[q].text = req.data["text"].s

\* the frame of a PUT: the row id of table t takes the body's allowed keys
\* and nothing else changes
PutFrame(t, tNew, id, data, allowed) ==
    /\ DOMAIN tNew = DOMAIN t
    /\ \A i \in DOMAIN t \ {id} : tNew[i] = t[i]
    /\ \A f \in DOMAIN t[id] :
          tNew[id][f] = IF f \in DOMAIN data \cap allowed
                        THEN (IF f = "rating" THEN data[f].n ELSE data[f].s)
                        ELSE t[id][f]

PutSucceeds ==
    /\ Serves("edit_author") /\ resp'.status = OK =>
          /\ PutFrame(authors, authors', req'.id, req'.data, {"name", "surname"})
          /\ quotes' = quotes
    /\ Serves("edit_quote") /\ resp'.status = OK =>
          /\ PutFrame(quotes, quotes', req'.id, req'.data, {"text", "rating"})
          /\ authors' = authors

\* C9 as stated: a successful PUT assigns exactly the allowed keys of the
\* body and changes nothing else; a body with no allowed key returns 400 and
\* changes nothing
C9_Original ==
    [][/\ PutSucceeds
       /\ (Serves("edit_author") /\ DOMAIN req'.data \cap {"name", "surname"} = {})
            => (resp'.status = BAD_REQUEST /\ authors' = authors /\ quotes' = quotes)
       /\ (Serves("edit_quote") /\ DOMAIN req'.data \cap {"text", "rating"} = {})
            => (resp'.status = BAD_REQUEST /\ authors' = authors /\ quotes' = quotes)]_vars

\* C9 amended: a successful PUT assigns exactly the allowed keys of the body
\* and changes nothing else; a body with no allowed key changes nothing and
\* returns 400 when the body is empty or the record is stored, 404 when the
\* body is not empty and the record is not stored
C9_PutFrame ==
    [][/\ PutSucceeds
       /\ (Serves("edit_author") /\ DOMAIN req'.data \cap {"name", "surname"} = {})
            => /\ authors' = authors /\ quotes' = quotes
               /\ resp'.status = IF DOMAIN req'.data = {} \/ req'.id \in DOMAIN authors
                                 THEN BAD_REQUEST ELSE NOT_FOUND
       /\ (Serves("edit_quote") /\ DOMAIN req'.data \cap {"text", "rating"} = {})
            => /\ authors' = authors /\ quotes' = quotes
               /\ resp'.status = IF DOMAIN req'.data = {} \/ req'.id \in DOMAIN quotes
                                 THEN BAD_REQUEST ELSE NOT_FOUND]_vars

C9_Witness ==
    /\ Served("edit_author")
    /\ resp.status = OK
    /\ DOMAIN req.data = {"name", "foo"}
    /\ authors[req.id].surname = "s"
    /\ Cardinality(DOMAIN authors) = 2
    /\ DOMAIN quotes # {}

\* the decimal numerals among the query values that denote the integer n
Numerals(n) == IF n = 5 THEN {"5", "05"} ELSE {}

\* the stored quote q passes the filter parameters args
PassesFilter(q, args) ==
    /\ "text" \in DOMAIN args => quotes[q].text = args["text"]
    /\ "rating" \in DOMAIN args => args["rating"] \in Numerals(quotes[q].rating)
    /\ "name" \in DOMAIN args => authors[quotes[q].author_id].name = args["name"]
    /\ "surname" \in DOMAIN args => authors[quotes[q].author_id].surname = args["surname"]

\* C10: GET /quotes/filter with a recognized parameter and no empty
\* recognized value returns exactly the stored quotes, each once, whose text,
\* rating, author name and author surname equal the supplied ones
C10_FilterResult ==
    (/\ Served("filter_quote")
     /\ DOMAIN req.data \cap {"name", "surname", "text", "rating"} # {}
     /\ \A k \in DOMAIN req.data \cap {"name", "surname", "text", "rating"} : req.data[k] # "")
      => /\ resp.status = OK
         /\ ListedQuoteIds(resp.body) = {q \in DOMAIN quotes : PassesFilter(q, req.data)}
         /\ Len(resp.body.quotes) = Cardinality(ListedQuoteIds(resp.body))

C10_Witness ==
    /\ Served("filter_quote")
    /\ DOMAIN req.data = {"name", "surname", "rating"}
    /\ req.data["rating"] = "05"
    /\ Len(resp.body.quotes) = 1
    /\ Cardinality(DOMAIN quotes) = 2
    /\ Cardinality(DOMAIN authors) = 2
====
